---- MODULE Spec2Model ----
(***************************************************************************)
(* RowsetBuilder (storage/secondary/rowset/rowset_builder.rs): the         *)
(* in-memory accumulation of DataChunks and the flush of one data file and *)
(* one index file per column, followed by a directory sync.                *)
(*                                                                         *)
(* finish_and_flush is an async fn: it is modelled one await point at a    *)
(* time, so that I/O failures, process termination and a second builder    *)
(* working in the same directory can be placed between any two steps.      *)
(***************************************************************************)
EXTENDS Integers, Sequences, FiniteSets, TLC

(* ------------------------------ bounds -------------------------------- *)
\* longest column descriptor list given to RowsetBuilder::new
MaxCols == 2
\* largest column id a descriptor carries
MaxId == 1
\* most files found in the directory before the first builder starts
MaxPre == 1
\* most append calls made on one builder
MaxAppends == 2

(* --------------------------- u32 arithmetic --------------------------- *)
\* Row counts are kept as <<hi, lo>> with value hi * 2^16 + lo, lo < 2^16.
\* A u32 has hi < 2^16; a usize cardinality or an exact sum may have more.
Half == 65536

Big(hi, lo) == <<hi, lo>>

Zero == Big(0, 0)

BigAdd(a, b) ==
    LET lo == a[2] + b[2]
    IN  Big(a[1] + b[1] + (lo \div Half), lo % Half)

\* `x as u32`
AsU32(a) == Big(a[1] % Half, a[2])

FitsU32(a) == a[1] < Half

RECURSIVE BigSum(_)
BigSum(s) == IF s = <<>> THEN Zero ELSE BigAdd(Head(s), BigSum(Tail(s)))

(* ------------------------------- paths -------------------------------- *)
ColIds == 0..MaxId

Suffixes == {".col", ".idx"}

\* the directory every builder of the model is constructed with
Dir == "rowset"

\* base.join(format!("{}{}", column_info.id(), suffix))
path_of_column(base, id, suffix) == base \o "/" \o ToString(id) \o suffix

path_of_data_column(base, id) == path_of_column(base, id, ".col")

\* an index path that takes the suffix of the data file
path_of_index_columnCol(base, id) == path_of_column(base, id, ".col")

path_of_index_column(base, id) == path_of_column(base, id, ".idx")

Paths == {path_of_column(Dir, id, s) : id \in ColIds, s \in Suffixes}

(* ------------------------------- state -------------------------------- *)
Builders == {1, 2}

NoFile == [exists |-> FALSE]

VARIABLES
    columns,    \* self.columns: the column ids of the descriptors, in order
    builders,   \* self.builders: per descriptor, the arrays its encoder holds
    row_cnt,    \* self.row_cnt (u32)
    pc,         \* where each builder is: accumulating, an await point, returned
    col,        \* position of the flush loop in columns (0: not entered)
    suffix,     \* which of the column's two files pipe_to_file works on
    local,      \* (index, data) of the column at hand and the bytes being piped
    result,     \* what finish_and_flush returned
    fs,         \* the directory: path -> file
    dirSynced,  \* builders whose sync_dir completed
    calls,      \* history: the chunks append was called with
    finished,   \* history: per descriptor, how often its encoder was finished
    flushes,    \* history: how often finish_and_flush was entered
    probe       \* the call and the result of a function that is checked alone

vars == <<columns, builders, row_cnt, pc, col, suffix, local, result, fs,
          dirSynced, calls, finished, flushes, probe>>

NoProbe == [op |-> "none"]

NoLocal == [index |-> <<>>, data |-> <<>>, bytes |-> <<>>]

\* RowsetBuilder::new: one empty encoder per descriptor, zero rows
New(cols) ==
    [columns |-> cols,
     builders |-> [i \in 1..Len(cols) |-> <<>>],
     row_cnt |-> Zero]

ColLists == UNION {[1..n -> ColIds] : n \in 0..MaxCols}

Distinct(cols) == \A i, j \in 1..Len(cols) : cols[i] = cols[j] => i = j

\* a file some earlier writer left in the directory
OldFile ==
    [exists |-> TRUE, creator |-> 0, writers |-> {0}, bytes |-> <<"old">>,
     written |-> "full", synced |-> TRUE]

PreSets == {S \in SUBSET Paths : Cardinality(S) <= MaxPre}

\* the state after construction: builder 1 over cols1, builder 2 over cols2
\* when present, and a directory holding the files of pre
InitWith(cols1, present2, cols2, pre) ==
    /\ columns = [b \in Builders |-> IF b = 1 THEN New(cols1).columns
                                     ELSE New(cols2).columns]
    /\ builders = [b \in Builders |-> IF b = 1 THEN New(cols1).builders
                                      ELSE New(cols2).builders]
    /\ row_cnt = [b \in Builders |-> IF b = 1 THEN New(cols1).row_cnt
                                     ELSE New(cols2).row_cnt]
    /\ pc = [b \in Builders |->
                IF b = 1 \/ present2 THEN "Accumulating" ELSE "Absent"]
    /\ col = [b \in Builders |-> 0]
    /\ suffix = [b \in Builders |-> ".col"]
    /\ local = [b \in Builders |-> NoLocal]
    /\ result = [b \in Builders |-> "None"]
    /\ fs = [p \in Paths |-> IF p \in pre THEN OldFile ELSE NoFile]
    /\ dirSynced = {}
    /\ calls = [b \in Builders |-> <<>>]
    /\ finished = [b \in Builders |->
                      [i \in 1..Len(IF b = 1 THEN cols1 ELSE cols2) |-> 0]]
    /\ flushes = [b \in Builders |-> 0]
    /\ probe = NoProbe

(* ------------------------------- append ------------------------------- *)
\* cardinalities a DataChunk may have (usize): 1, 2^31, 2^32
Cards == {Big(0, 1), Big(32768, 0), Big(65536, 0)}

\* a DataChunk: column_count() arrays of cardinality() rows each
Chunk(k, n, c) == [id |-> k, column_count |-> n, cardinality |-> c]

\* chunk.array_at(idx), idx counted from 0 as in the code
array_at(chunk, idx) ==
    [chunk |-> chunk.id, idx |-> idx, rows |-> chunk.cardinality]

\* a loop that hands the first array to every encoder
AppendLoopFirst(encs, chunk) ==
    [i \in 1..Len(encs) |->
        IF i <= chunk.column_count
        THEN Append(encs[i], array_at(chunk, 0))
        ELSE encs[i]]

\* a loop that puts the new array in front of the ones the encoder holds
AppendLoopPrepend(encs, chunk) ==
    [i \in 1..Len(encs) |->
        IF i <= chunk.column_count
        THEN <<array_at(chunk, i - 1)>> \o encs[i]
        ELSE encs[i]]

\* the for loop of append: builders[idx].append(chunk.array_at(idx)) for idx
\* in 0..column_count; indexing past the last encoder panics, after the
\* encoders before it have taken their arrays
AppendLoop(encs, chunk) ==
    [i \in 1..Len(encs) |->
        IF i <= chunk.column_count
        THEN Append(encs[i], array_at(chunk, i - 1))
        ELSE encs[i]]

IndexPanics(encs, chunk) == chunk.column_count > Len(encs)

\* self.row_cnt += chunk.cardinality() as u32
AddRows(cnt, chunk) == BigAdd(cnt, AsU32(chunk.cardinality))

\* an append that a consumed builder still accepts
appendAnytime(b, chunk) ==
    /\ pc[b] \notin {"Absent", "Panicked"}
    /\ calls' = [calls EXCEPT ![b] = Append(@, chunk)]
    /\ row_cnt' = [row_cnt EXCEPT ![b] = AsU32(AddRows(@, chunk))]
    /\ builders' = [builders EXCEPT ![b] = AppendLoop(@, chunk)]
    /\ UNCHANGED <<columns, pc, col, suffix, local, result, fs, dirSynced,
                   finished, flushes,
                   probe>>

\* an append that spills the first column's array into its data file
appendSpill(b, chunk) ==
    /\ pc[b] = "Accumulating"
    /\ calls' = [calls EXCEPT ![b] = Append(@, chunk)]
    /\ row_cnt' = [row_cnt EXCEPT ![b] = AsU32(AddRows(@, chunk))]
    /\ builders' = [builders EXCEPT ![b] = AppendLoop(@, chunk)]
    /\ fs' = [p \in Paths |->
                 IF Len(columns[b]) > 0 /\ p = path_of_data_column(Dir, columns[b][1])
                 THEN [exists |-> TRUE, creator |-> b, writers |-> {b},
                       bytes |-> builders'[b][1], written |-> "partial",
                       synced |-> FALSE]
                 ELSE fs[p]]
    /\ UNCHANGED <<columns, pc, col, suffix, local, result, dirSynced,
                   finished, flushes, probe>>

\* what an overflowing `+=` does: it wraps in a build without overflow
\* checks and panics in a build with them; a sum that fits is just stored
Wraps(sum) == IF FitsU32(sum) THEN {TRUE} ELSE {TRUE, FALSE}

\* RowsetBuilder::append.  The builder is borrowed mutably, so the call is
\* possible only while finish_and_flush has not consumed it.
append(b, chunk) ==
    /\ pc[b] = "Accumulating"
    /\ calls' = [calls EXCEPT ![b] = Append(@, chunk)]
    /\ \E wraps \in Wraps(AddRows(row_cnt[b], chunk)) :
          IF wraps
          THEN /\ row_cnt' = [row_cnt EXCEPT ![b] = AsU32(AddRows(@, chunk))]
               /\ builders' = [builders EXCEPT ![b] = AppendLoop(@, chunk)]
               /\ pc' = [pc EXCEPT ![b] =
                            IF IndexPanics(builders[b], chunk)
                            THEN "Panicked" ELSE @]
          ELSE /\ pc' = [pc EXCEPT ![b] = "Panicked"]
               /\ UNCHANGED <<row_cnt, builders>>
    /\ UNCHANGED <<columns, col, suffix, local, result, fs, dirSynced,
                   finished, flushes,
                   probe>>

\* every chunk the caller can pass next: a DataChunk is made of at least one
\* array, whose length is its cardinality
Chunks(b) ==
    {Chunk(Len(calls[b]) + 1, n, c) : n \in 1..(Len(columns[b]) + 1), c \in Cards}

\* chunks of the right shape and of one row
SmallChunks(b) ==
    {Chunk(Len(calls[b]) + 1, n, Big(0, 1)) : n \in {Len(columns[b])} \ {0}}

(* ------------------------- encoder and index -------------------------- *)
\* ColumnBuilderImpl::finish: (index, data).  Every array the encoder took
\* is one block of data; its index entry carries the block's row count.
Finish(enc) ==
    [index |-> [i \in 1..Len(enc) |-> [block |-> i, row_count |-> enc[i].rows]],
     data |-> enc]

\* self.column_options.checksum_type
ChecksumType == "crc32"

\* IndexBuilder::new(checksum_type, len)
IndexBuilderNew(checksum, len) ==
    [checksum |-> checksum, count |-> len, entries |-> <<>>]

\* IndexBuilder::append(entry)
IndexBuilderAppend(ib, entry) == [ib EXCEPT !.entries = Append(@, entry)]

\* IndexBuilder::finish: the header and the entries, serialized
IndexBuilderFinish(ib) == <<ib>>

\* `for index in index { index_builder.append(index); }`
RECURSIVE AppendEntries(_, _)
AppendEntries(ib, entries) ==
    IF entries = <<>> THEN ib
    ELSE AppendEntries(IndexBuilderAppend(ib, Head(entries)), Tail(entries))

\* the bytes of the index file: IndexBuilder::new(checksum_type, len), append
\* per entry, finish
IndexBytes(checksum, len, entries) ==
    IndexBuilderFinish(AppendEntries(IndexBuilderNew(checksum, len), entries))

(* -------------------------- finish_and_flush -------------------------- *)
FlushPcs == {"finish", "open", "write_all", "flush", "sync_data", "index",
             "dir_open", "dir_sync"}

\* the await points at which the operating system may report an error
IoPcs == {"open", "write_all", "flush", "sync_data", "dir_open", "dir_sync"}

CurPath(b) == path_of_column(Dir, columns[b][col[b]], suffix[b])

\* a loop that stops one column short
LoopHeadShort(b) ==
    IF col[b] < Len(columns[b]) - 1
    THEN [pc |-> "finish", col |-> col[b] + 1]
    ELSE [pc |-> "dir_open", col |-> col[b]]

\* a loop that is skipped when no row was appended
LoopHeadSkipEmpty(b) ==
    IF col[b] < Len(columns[b]) /\ row_cnt[b] # Zero
    THEN [pc |-> "finish", col |-> col[b] + 1]
    ELSE [pc |-> "dir_open", col |-> col[b]]

\* the head of `for (column_info, builder) in columns.iter().zip(builders)`:
\* the next column, or past the loop to sync_dir
LoopHead(b) ==
    IF col[b] < Len(columns[b])
    THEN [pc |-> "finish", col |-> col[b] + 1]
    ELSE [pc |-> "dir_open", col |-> col[b]]

Goto(b, to) ==
    /\ pc' = [pc EXCEPT ![b] = to.pc]
    /\ col' = [col EXCEPT ![b] = to.col]

\* a flush that forgets the index file of every column
AfterPipeNoIndex(b) == LoopHead(b)

\* where finish_and_flush goes on when pipe_to_file returned Ok: from the
\* data file to the column's index, from the index file to the loop head
AfterPipe(b) ==
    IF suffix[b] = ".col"
    THEN [pc |-> "index", col |-> col[b]]
    ELSE LoopHead(b)

\* an error that is dropped (`let _ = ...`): the flush goes on
PropagateIgnored(b, err) ==
    /\ Goto(b, IF pc[b] \in {"dir_open", "dir_sync"}
               THEN [pc |-> "Returned", col |-> col[b]]
               ELSE AfterPipe(b))
    /\ result' = [result EXCEPT ![b] =
                     IF pc[b] \in {"dir_open", "dir_sync"} THEN "Ok" ELSE @]

\* the `?` after an await: the error is returned to the caller at once
Propagate(b, err) ==
    /\ pc' = [pc EXCEPT ![b] = "Returned"]
    /\ result' = [result EXCEPT ![b] = err]
    /\ UNCHANGED col

\* entry: `self` is moved into the call
finish_and_flush(b) ==
    /\ pc[b] = "Accumulating"
    /\ flushes' = [flushes EXCEPT ![b] = @ + 1]
    /\ Goto(b, LoopHead(b))
    /\ UNCHANGED <<columns, builders, row_cnt, suffix, local, result, fs,
                   dirSynced, calls, finished,
                   probe>>

\* let (index, data) = builder.finish(); then pipe_to_file(data path, data)
EncoderFinish(b) ==
    /\ pc[b] = "finish"
    /\ LET out == Finish(builders[b][col[b]])
       IN  local' = [local EXCEPT ![b] =
                        [index |-> out.index, data |-> out.data,
                         bytes |-> out.data]]
    /\ finished' = [finished EXCEPT ![b][col[b]] = @ + 1]
    /\ suffix' = [suffix EXCEPT ![b] = ".col"]
    /\ pc' = [pc EXCEPT ![b] = "open"]
    /\ UNCHANGED <<columns, builders, row_cnt, col, result, fs, dirSynced,
                   calls, flushes,
                   probe>>

\* create(true).truncate(true): any path can be opened
create_truncate(p) == TRUE

\* OpenOptions::new().write(true).create_new(true): only a path that does
\* not exist can be opened
create_new(p) == ~fs[p].exists

NewFile(b, bytes) ==
    [exists |-> TRUE, creator |-> b, writers |-> {}, bytes |-> bytes,
     written |-> "none", synced |-> FALSE]

\* pipe_to_file: open(path) succeeds and creates the file, empty
Open(b) ==
    /\ pc[b] = "open"
    /\ create_new(CurPath(b))
    /\ fs' = [fs EXCEPT ![CurPath(b)] = NewFile(b, local[b].bytes)]
    /\ pc' = [pc EXCEPT ![b] = "write_all"]
    /\ UNCHANGED <<columns, builders, row_cnt, col, suffix, local, result,
                   dirSynced, calls, finished, flushes,
                   probe>>

\* pipe_to_file: open(path) finds the path taken
OpenExists(b) ==
    /\ pc[b] = "open"
    /\ fs[CurPath(b)].exists
    /\ Propagate(b, "AlreadyExists")
    /\ UNCHANGED <<columns, builders, row_cnt, suffix, local, fs, dirSynced,
                   calls, finished, flushes,
                   probe>>

\* how much of the bytes has reached the file when write_all returns: the
\* BufWriter may hold them back, and the file writes in the background
WriteOutcomes == {"none", "partial", "full"}

\* what a failed write or flush leaves of a file that held w
FailedOutcomes(w) == IF w = "full" THEN {"full"} ELSE {w, "partial"}

Touch(f, b, w) ==
    [f EXCEPT !.written = w,
              !.writers = IF w = "none" THEN @ ELSE @ \cup {b},
              !.synced = IF w = f.written THEN @ ELSE FALSE]

\* a write_all whose writer is never flushed
WriteAllNoFlush(b) ==
    /\ pc[b] = "write_all"
    /\ \E w \in WriteOutcomes :
          fs' = [fs EXCEPT ![CurPath(b)] = Touch(@, b, w)]
    /\ pc' = [pc EXCEPT ![b] = "sync_data"]
    /\ UNCHANGED <<columns, builders, row_cnt, col, suffix, local, result,
                   dirSynced, calls, finished, flushes, probe>>

\* pipe_to_file: writer.write_all(&data)
WriteAll(b) ==
    /\ pc[b] = "write_all"
    /\ \E w \in WriteOutcomes :
          fs' = [fs EXCEPT ![CurPath(b)] = Touch(@, b, w)]
    /\ pc' = [pc EXCEPT ![b] = "flush"]
    /\ UNCHANGED <<columns, builders, row_cnt, col, suffix, local, result,
                   dirSynced, calls, finished, flushes,
                   probe>>

\* pipe_to_file: writer.flush()
Flush(b) ==
    /\ pc[b] = "flush"
    /\ fs' = [fs EXCEPT ![CurPath(b)] = Touch(@, b, "full")]
    /\ pc' = [pc EXCEPT ![b] = "sync_data"]
    /\ UNCHANGED <<columns, builders, row_cnt, col, suffix, local, result,
                   dirSynced, calls, finished, flushes,
                   probe>>

\* a pipe_to_file that returns Ok without sync_data
SyncDataSkipped(b) ==
    /\ pc[b] = "sync_data"
    /\ Goto(b, AfterPipe(b))
    /\ UNCHANGED <<columns, builders, row_cnt, suffix, local, result, fs,
                   dirSynced, calls, finished, flushes, probe>>

\* pipe_to_file: file.sync_data(), then Ok(())
SyncData(b) ==
    /\ pc[b] = "sync_data"
    /\ fs' = [fs EXCEPT ![CurPath(b)].synced = TRUE]
    /\ Goto(b, AfterPipe(b))
    /\ UNCHANGED <<columns, builders, row_cnt, suffix, local, result,
                   dirSynced, calls, finished, flushes,
                   probe>>

\* an index loop that misses the first entry
BuildIndexSkipFirst(b) ==
    /\ pc[b] = "index"
    /\ local' = [local EXCEPT ![b].bytes =
                    IndexBytes(ChecksumType, Len(local[b].index),
                               IF local[b].index = <<>> THEN <<>>
                               ELSE Tail(local[b].index))]
    /\ suffix' = [suffix EXCEPT ![b] = ".idx"]
    /\ pc' = [pc EXCEPT ![b] = "open"]
    /\ UNCHANGED <<columns, builders, row_cnt, col, result, fs, dirSynced,
                   calls, finished, flushes, probe>>

\* the IndexBuilder of the column, then pipe_to_file(index path, bytes)
BuildIndex(b) ==
    /\ pc[b] = "index"
    /\ local' = [local EXCEPT ![b].bytes =
                    IndexBytes(ChecksumType, Len(local[b].index),
                               local[b].index)]
    /\ suffix' = [suffix EXCEPT ![b] = ".idx"]
    /\ pc' = [pc EXCEPT ![b] = "open"]
    /\ UNCHANGED <<columns, builders, row_cnt, col, result, fs, dirSynced,
                   calls, finished, flushes,
                   probe>>

\* sync_dir: File::open(path)
DirOpen(b) ==
    /\ pc[b] = "dir_open"
    /\ pc' = [pc EXCEPT ![b] = "dir_sync"]
    /\ UNCHANGED <<columns, builders, row_cnt, col, suffix, local, result,
                   fs, dirSynced, calls, finished, flushes,
                   probe>>

\* sync_dir: sync_data() on the directory, then Ok(()) from finish_and_flush
DirSync(b) ==
    /\ pc[b] = "dir_sync"
    /\ dirSynced' = dirSynced \cup {b}
    /\ pc' = [pc EXCEPT ![b] = "Returned"]
    /\ result' = [result EXCEPT ![b] = "Ok"]
    /\ UNCHANGED <<columns, builders, row_cnt, col, suffix, local, fs,
                   calls, finished, flushes,
                   probe>>

\* what a failing step leaves in the directory
FailedFs(b) ==
    IF pc[b] \in {"write_all", "flush"}
    THEN {[fs EXCEPT ![CurPath(b)] = Touch(@, b, w)] :
             w \in FailedOutcomes(fs[CurPath(b)].written)}
    ELSE {fs}

\* an open, write_all, flush or sync_data that returns an I/O error
IoFails(b) ==
    /\ pc[b] \in IoPcs
    /\ fs' \in FailedFs(b)
    /\ Propagate(b, "IoError")
    /\ UNCHANGED <<columns, builders, row_cnt, suffix, local, dirSynced,
                   calls, finished, flushes,
                   probe>>

\* the process ends in the middle of the flush
Crash(b) ==
    /\ pc[b] \in FlushPcs
    /\ pc' = [pc EXCEPT ![b] = "Crashed"]
    /\ UNCHANGED <<columns, builders, row_cnt, col, suffix, local, result,
                   fs, dirSynced, calls, finished, flushes,
                   probe>>

\* the steps of a flush that meets no I/O error
FlushStep(b) ==
    \/ EncoderFinish(b)
    \/ Open(b)
    \/ WriteAll(b)
    \/ Flush(b)
    \/ SyncData(b)
    \/ BuildIndex(b)
    \/ DirOpen(b)
    \/ DirSync(b)

(* --------------------------- specifications --------------------------- *)
\* one builder, a directory that may hold files, I/O errors and crashes
Init ==
    \E cols \in ColLists, pre \in PreSets : InitWith(cols, FALSE, <<>>, pre)

Next ==
    \E b \in Builders :
        \/ /\ Len(calls[b]) < MaxAppends
           /\ \E chunk \in SmallChunks(b) : append(b, chunk)
        \/ finish_and_flush(b)
        \/ FlushStep(b)
        \/ OpenExists(b)
        \/ IoFails(b)
        \/ Crash(b)

Spec == Init /\ [][Next]_vars

\* one builder, an empty directory, no I/O error: every chunk shape and
\* cardinality the caller can pass to append
CanonicalLists == {[i \in 1..n |-> i - 1] : n \in 0..MaxCols}

InitAppend == \E cols \in CanonicalLists : InitWith(cols, FALSE, <<>>, {})

NextAppend ==
    \E b \in Builders :
        \/ /\ Len(calls[b]) < MaxAppends
           /\ \E chunk \in Chunks(b) : append(b, chunk)
        \/ finish_and_flush(b)
        \/ FlushStep(b)

SpecAppend == InitAppend /\ [][NextAppend]_vars

\* two builders flushing into the same directory at the same time
InitConc ==
    \E cols1 \in ColLists, cols2 \in ColLists :
        InitWith(cols1, TRUE, cols2, {})

NextConc ==
    \E b \in Builders :
        \/ finish_and_flush(b)
        \/ FlushStep(b)
        \/ OpenExists(b)
        \/ IoFails(b)
        \/ Crash(b)

SpecConc == InitConc /\ [][NextConc]_vars

\* one builder over distinct column ids, an empty directory, no I/O error;
\* a flush that has been entered is run to its end by the async runtime
InitLive ==
    \E cols \in {c \in ColLists : Distinct(c)} : InitWith(cols, FALSE, <<>>, {})

NextLive ==
    \E b \in Builders :
        \/ /\ Len(calls[b]) < MaxAppends
           /\ \E chunk \in SmallChunks(b) : append(b, chunk)
        \/ finish_and_flush(b)
        \/ FlushStep(b)

SpecLive == InitLive /\ [][NextLive]_vars /\ WF_vars(FlushStep(1))

(* ------------------------------- claims ------------------------------- *)
Errors == {"AlreadyExists", "IoError"}

DataPath(b, i) == path_of_data_column(Dir, columns[b][i])

IndexPath(b, i) == path_of_index_column(Dir, columns[b][i])

MyPaths(b) ==
    {path_of_column(Dir, columns[b][i], s) : i \in 1..Len(columns[b]), s \in Suffixes}

Existing == {p \in Paths : fs[p].exists}

\* the file holds all of `bytes`, written by builder b alone, and is synced
Durable(f, b, bytes) ==
    /\ f.exists
    /\ f.creator = b
    /\ f.writers = {b}
    /\ f.bytes = bytes
    /\ f.written = "full"
    /\ f.synced

\* the data file and the index file of descriptor i of builder b are durable
ColumnDurable(b, i) ==
    LET out == Finish(builders[b][i])
    IN  /\ Durable(fs[DataPath(b, i)], b, out.data)
        /\ Durable(fs[IndexPath(b, i)], b,
                   IndexBytes(ChecksumType, Len(out.index), out.index))

AllDurable(b) == \A i \in 1..Len(columns[b]) : ColumnDurable(b, i)

\* C1: whenever a builder has reached sync_dir or completed it (also in runs
\* that an I/O error or a crash cuts short afterwards), the data file and the
\* index file of every one of its descriptors exist with their full contents
\* and are synced.
C1_DirSyncAfterAllFiles ==
    \A b \in Builders :
        (pc[b] \in {"dir_open", "dir_sync"} \/ b \in dirSynced) => AllDurable(b)

C1_Witness ==
    /\ 1 \in dirSynced
    /\ Len(columns[1]) = 2
    /\ Cardinality(Existing) >= 4

\* C2: a failing open, write_all, flush or sync_data of a column file ends the
\* flush at that step with an error; from then on the builder creates and
\* writes nothing, and the directory is never synced by it.
C2_FailureAborts ==
    /\ [](\A b \in Builders : result[b] \in Errors => b \notin dirSynced)
    /\ [][\A b \in Builders :
            /\ (IoFails(b) \/ OpenExists(b)) =>
                  /\ pc'[b] = "Returned"
                  /\ result'[b] \in Errors
                  /\ dirSynced' = dirSynced
                  /\ \A p \in Paths : fs'[p].exists = fs[p].exists
            /\ result[b] \in Errors =>
                  /\ fs' = fs
                  /\ dirSynced' = dirSynced
                  /\ pc'[b] = pc[b]
                  /\ result'[b] = result[b]]_vars

C2_Witness ==
    /\ result[1] = "IoError"
    /\ Len(columns[1]) = 2
    /\ col[1] = 1
    /\ suffix[1] = ".idx"
    /\ fs[DataPath(1, 1)].synced
    /\ ~fs[DataPath(1, 2)].exists

\* C3 (as claimed): a flush into a directory that already holds one of the
\* builder's column files, whichever it is, fails and leaves the directory as
\* it was: the builder creates no file and writes no byte.
C3_CollisionWritesNothing ==
    (\E p \in MyPaths(1) : fs[p].exists /\ fs[p].creator = 0) =>
        /\ result[1] # "Ok"
        /\ \A p \in Paths : fs[p].exists => fs[p].creator # 1

Overlap == \E i \in 1..Len(columns[1]), j \in 1..Len(columns[2]) :
              columns[1][i] = columns[2][j]

\* C4: with two builders flushing into one directory, no file is written by
\* two builders, a builder that returns Ok created and wrote each of its
\* files itself, and builders that share a column id never both return Ok.
C4_ExclusiveCreate ==
    /\ \A p \in Existing : fs[p].writers \subseteq {fs[p].creator}
    /\ \A b \in Builders : result[b] = "Ok" => AllDurable(b)
    /\ Overlap => ~(result[1] = "Ok" /\ result[2] = "Ok")

C4_Witness ==
    /\ Overlap
    /\ result[1] = "Ok"
    /\ result[2] = "AlreadyExists"
    /\ \E p \in Existing : fs[p].creator = 2 /\ fs[p].written = "full"

\* the chunk of the append call that a step makes on builder b
Appended(b) == calls'[b][Len(calls'[b])]

\* C5 (as claimed): an append of a chunk whose column count differs from the
\* number of descriptors fails as a fatal error and changes neither the row
\* total nor any encoder.
C5_MismatchRejected ==
    [][\A b \in Builders :
          (calls'[b] # calls[b] /\ Appended(b).column_count # Len(columns[b])) =>
              /\ pc'[b] = "Panicked"
              /\ row_cnt'[b] = row_cnt[b]
              /\ builders'[b] = builders[b]]_vars

\* the rows the encoder of descriptor i of builder b was handed
EncoderRows(b, i) ==
    BigSum([k \in 1..Len(builders[b][i]) |-> builders[b][i][k].rows])

\* C6 (as claimed): once the encoders are finished, every encoder was handed
\* as many rows as the builder's row total says.
C6_RowCountConsistent ==
    \A b \in Builders :
        \A i \in 1..Len(columns[b]) :
            finished[b][i] >= 1 => EncoderRows(b, i) = row_cnt[b]

\* the exact sum of the cardinalities of the chunks appended to builder b
RowsAppended(b) ==
    BigSum([k \in 1..Len(calls[b]) |-> calls[b][k].cardinality])

\* C7 (as claimed): after any appends that returned, row_cnt is the exact sum
\* of the cardinalities of the chunks appended.
C7_RowTotalExact ==
    \A b \in Builders : pc[b] # "Panicked" => row_cnt[b] = RowsAppended(b)

\* C8: over distinct column ids, in a directory that starts empty and with no
\* I/O error, a flush that is entered returns Ok, and the directory then holds
\* the data file and the index file of every column and nothing else.
C8_FlushCompletes ==
    (flushes[1] = 1) ~>
        /\ pc[1] = "Returned"
        /\ result[1] = "Ok"
        /\ Existing = MyPaths(1)
        /\ Cardinality(Existing) = 2 * Len(columns[1])

C8_Witness ==
    /\ pc[1] = "Returned"
    /\ result[1] = "Ok"
    /\ Len(columns[1]) = 2
    /\ Len(calls[1]) = 2
    /\ Cardinality(Existing) = 4

\* C9: a flush of a builder that was never appended to returns Ok with every
\* column's data file and index file created and synced and the directory
\* synced; the row total is zero and no encoder was handed a row.
C9_EmptyFlush ==
    (pc[1] = "Returned" /\ calls[1] = <<>>) =>
        /\ result[1] = "Ok"
        /\ AllDurable(1)
        /\ 1 \in dirSynced
        /\ row_cnt[1] = Zero
        /\ \A i \in 1..Len(columns[1]) : EncoderRows(1, i) = Zero

C9_Witness ==
    /\ pc[1] = "Returned"
    /\ calls[1] = <<>>
    /\ Len(columns[1]) = 2
    /\ Existing = MyPaths(1)

\* C10 (as claimed): finish_and_flush is entered at most once, after it no
\* append is possible, and when it has returned, with Ok or with an error,
\* every encoder was finished exactly once.
C10_FinishExactlyOnce ==
    \A b \in Builders :
        /\ flushes[b] <= 1
        /\ flushes[b] = 1 => pc[b] # "Accumulating"
        /\ pc[b] = "Returned" =>
              \A i \in 1..Len(columns[b]) : finished[b][i] = 1

\* C10 (amended): finish_and_flush is entered at most once and after it no
\* append happens; the encoders of the columns before the one the flush works
\* on were finished once, those after it never, so that every encoder was
\* finished exactly once when the flush returns Ok and at most once otherwise.
C10_FinishAtMostOnce ==
    /\ [](\A b \in Builders :
            /\ flushes[b] <= 1
            /\ \A i \in 1..Len(columns[b]) :
                  /\ i < col[b] => finished[b][i] = 1
                  /\ i > col[b] => finished[b][i] = 0
                  /\ finished[b][i] <= 1
                  /\ (i = col[b] /\ pc[b] \notin {"finish", "Crashed"}) =>
                        finished[b][i] = 1
            /\ result[b] = "Ok" =>
                  \A i \in 1..Len(columns[b]) : finished[b][i] = 1)
    /\ [][\A b \in Builders :
            flushes[b] >= 1 =>
                /\ calls'[b] = calls[b]
                /\ builders'[b] = builders[b]
                /\ row_cnt'[b] = row_cnt[b]
                /\ flushes'[b] = flushes[b]]_vars

C10_Witness ==
    /\ result[1] = "IoError"
    /\ Len(columns[1]) = 2
    /\ Len(calls[1]) = 1
    /\ finished[1] = <<1, 0>>

\* C11: new and append do no I/O: an append step leaves the directory as it
\* is, and as long as no flush was entered the directory holds no file and
\* was not synced.
C11_AppendInMemory ==
    /\ []((\A b \in Builders : flushes[b] = 0) =>
             (Existing = {} /\ dirSynced = {}))
    /\ [][(calls' # calls) => (fs' = fs /\ dirSynced' = dirSynced)]_vars

C11_Witness ==
    /\ Len(calls[1]) = 2
    /\ Len(columns[1]) = 2
    /\ flushes[1] = 0
    /\ row_cnt[1] = Big(0, 2)

\* descriptor i is the first of builder b's descriptors with its column id
FirstWithId(b, i) == \A j \in 1..(i - 1) : columns[b][j] # columns[b][i]

\* C12: at every point of a flush, also after an error or a crash, an index
\* file that the builder created for a column means that the column's data
\* file and both files of every earlier column are complete and synced.
C12_IndexAfterData ==
    \A b \in Builders :
        \A i \in 1..Len(columns[b]) :
            (/\ FirstWithId(b, i)
             /\ fs[IndexPath(b, i)].exists
             /\ fs[IndexPath(b, i)].creator = b) =>
                /\ Durable(fs[DataPath(b, i)], b, Finish(builders[b][i]).data)
                /\ \A j \in 1..(i - 1) : ColumnDurable(b, j)

C12_Witness ==
    /\ pc[1] = "Crashed"
    /\ Len(columns[1]) = 2
    /\ Distinct(columns[1])
    /\ fs[IndexPath(1, 2)].exists
    /\ fs[IndexPath(1, 2)].written = "partial"

\* the files builder b created that are not synced
Unsynced(b) == {p \in Existing : fs[p].creator = b /\ ~fs[p].synced}

\* the order of the steps of pipe_to_file
PipeOrder ==
    [open |-> {"write_all"}, write_all |-> {"flush"}, flush |-> {"sync_data"},
     sync_data |-> {"index", "finish", "dir_open"}]

\* C13: a file goes through open, write_all, flush, sync_data in this order
\* and pipe_to_file returns Ok only when the file is synced; a file becomes
\* synced only with all its bytes written; a builder has at most one file
\* that is created and not synced, the one it is working on.
C13_PipeSequence ==
    /\ [](\A b \in Builders :
            /\ Cardinality(Unsynced(b)) <= 1
            /\ pc[b] \in {"write_all", "flush", "sync_data"} =>
                  Unsynced(b) = {CurPath(b)}
            /\ pc[b] \in {"finish", "open", "index", "dir_open", "dir_sync"} =>
                  Unsynced(b) = {}
            /\ result[b] = "Ok" => Unsynced(b) = {})
    /\ [][\A b \in Builders :
            /\ (pc[b] \in DOMAIN PipeOrder /\ pc'[b] # pc[b]) =>
                  pc'[b] \in PipeOrder[pc[b]] \cup {"Returned", "Crashed"}
            /\ \A p \in Paths :
                  (fs'[p].exists /\ fs'[p].creator = b /\ fs'[p].synced
                   /\ ~(fs[p].exists /\ fs[p].synced)) =>
                      (pc[b] = "sync_data" /\ fs[p].written = "full")]_vars

C13_Witness ==
    /\ pc[1] = "sync_data"
    /\ col[1] = 2
    /\ suffix[1] = ".idx"
    /\ Unsynced(1) = {IndexPath(1, 2)}

\* the arrays at position i (from 1) of the chunks cs that have one, in order
RECURSIVE ColumnArrays(_, _)
ColumnArrays(cs, i) ==
    IF cs = <<>> THEN <<>>
    ELSE (IF Head(cs).column_count >= i
          THEN <<array_at(Head(cs), i - 1)>> ELSE <<>>)
         \o ColumnArrays(Tail(cs), i)

\* the read path: the blocks of the data file that the index lists, in the
\* order of the index
Decode(data, index) ==
    [k \in 1..Len(index[1].entries) |-> data[index[1].entries[k].block]]

WellShaped(b) ==
    \A k \in 1..Len(calls[b]) : calls[b][k].column_count = Len(columns[b])

\* C16: while every chunk appended had one array per descriptor, the encoder
\* of descriptor i holds exactly the arrays at position i of the chunks, one
\* per chunk, in the order of the append calls.
C16_ForwardInOrder ==
    \A b \in Builders :
        (WellShaped(b) /\ pc[b] # "Panicked") =>
            \A i \in 1..Len(columns[b]) :
                builders[b][i] =
                    [k \in 1..Len(calls[b]) |-> array_at(calls[b][k], i - 1)]

C16_Witness ==
    /\ WellShaped(1)
    /\ pc[1] = "Accumulating"
    /\ Len(columns[1]) = 2
    /\ Len(calls[1]) = 2
    /\ calls[1][1].cardinality # calls[1][2].cardinality

\* C17: an index file that a builder wrote for a column carries the checksum
\* type of the rowset, a count equal to the number of entries the encoder's
\* finish returned, and exactly these entries, in their order; the data file
\* of the column carries the data of the same finish.
C17_IndexFromFinish ==
    \A b \in Builders :
        \A i \in 1..Len(columns[b]) :
            (/\ FirstWithId(b, i)
             /\ fs[IndexPath(b, i)].exists
             /\ fs[IndexPath(b, i)].creator = b) =>
                LET out == Finish(builders[b][i])
                    header == fs[IndexPath(b, i)].bytes[1]
                IN  /\ Len(fs[IndexPath(b, i)].bytes) = 1
                    /\ header.checksum = ChecksumType
                    /\ header.count = Len(out.index)
                    /\ header.entries = out.index
                    /\ fs[DataPath(b, i)].creator = b
                    /\ fs[DataPath(b, i)].bytes = out.data

C17_Witness ==
    /\ Len(columns[1]) >= 1
    /\ fs[IndexPath(1, 1)].exists
    /\ fs[IndexPath(1, 1)].creator = 1
    /\ fs[IndexPath(1, 1)].written = "full"
    /\ Len(fs[IndexPath(1, 1)].bytes[1].entries) = 2

\* the first descriptor of builder b whose column id an earlier one has
Dup(b) ==
    CHOOSE j \in 1..Len(columns[b]) :
        /\ ~FirstWithId(b, j)
        /\ \A k \in 1..(j - 1) : FirstWithId(b, k)

NoOldFile == \A p \in Existing : fs[p].creator # 0

\* C18: a builder whose descriptor list repeats a column id never reaches
\* sync_dir and never returns Ok: the flush gets as far as the open of the
\* data file of the first repeated descriptor, which finds the path taken; in
\* a directory that was empty AlreadyExists is returned there, with the files
\* of the descriptors before it written and synced.
C18_DuplicateIdFails ==
    \A b \in Builders :
        ~Distinct(columns[b]) =>
            /\ result[b] # "Ok"
            /\ b \notin dirSynced
            /\ pc[b] \notin {"dir_open", "dir_sync"}
            /\ col[b] <= Dup(b)
            /\ col[b] = Dup(b) =>
                  /\ pc[b] \in {"finish", "open", "Returned", "Crashed"}
                  /\ pc[b] = "open" => fs[CurPath(b)].exists
            /\ (result[b] = "AlreadyExists" /\ NoOldFile) =>
                  /\ col[b] = Dup(b)
                  /\ \A i \in 1..(Dup(b) - 1) : ColumnDurable(b, i)

C18_Witness ==
    /\ columns[1] = <<1, 1>>
    /\ result[1] = "AlreadyExists"
    /\ Len(calls[1]) = 1
    /\ ColumnDurable(1, 1)

(* ------------------------- the path functions alone -------------------- *)
\* the largest column id looked up, and the number of lookups kept
MaxPathId == 11
MaxProbes == 2

\* directories the paths are made in
PathDirs == {"rowset", "db/rowset"}

PathKept == IF probe.op = "path" THEN probe.paths ELSE {}

PathCall(base, id, sfx, path) ==
    /\ probe.op \in {"none", "path"}
    /\ probe.op = "path" => probe.base = base
    /\ Cardinality(PathKept) < MaxProbes
    /\ probe' = [op |-> "path", base |-> base,
                 paths |-> PathKept \cup
                              {[id |-> id, suffix |-> sfx, path |-> path]}]
    /\ UNCHANGED <<columns, builders, row_cnt, pc, col, suffix, local, result,
                   fs, dirSynced, calls, finished, flushes>>

\* a call of path_of_data_column(base, column_info)
DataPathCall(base, id) ==
    PathCall(base, id, ".col", path_of_data_column(base, id))

\* a call of path_of_index_column(base, column_info)
IndexPathCall(base, id) ==
    PathCall(base, id, ".idx", path_of_index_column(base, id))

InitPath == InitWith(<<>>, FALSE, <<>>, {})

NextPath ==
    \E base \in PathDirs, id \in 0..MaxPathId :
        \/ DataPathCall(base, id)
        \/ IndexPathCall(base, id)

SpecPath == InitPath /\ [][NextPath]_vars

Digit(d) == <<"0", "1", "2", "3", "4", "5", "6", "7", "8", "9">>[d + 1]

\* the decimal numeral of n
RECURSIVE Decimal(_)
Decimal(n) ==
    IF n < 10 THEN Digit(n) ELSE Decimal(n \div 10) \o Digit(n % 10)

\* C15: the data path of a column is <directory>/<id>.col and its index path
\* <directory>/<id>.idx, with the id in decimal; in one directory two paths
\* computed are equal only if the ids and the suffixes are equal, and equal
\* ids and suffixes give equal paths.
C15_PathNaming ==
    /\ \A e \in PathKept :
          e.path = probe.base \o "/" \o Decimal(e.id) \o e.suffix
    /\ \A e1, e2 \in PathKept :
          (e1.path = e2.path) <=> (e1.id = e2.id /\ e1.suffix = e2.suffix)

C15_Witness ==
    /\ Cardinality(PathKept) = 2
    /\ \E e1, e2 \in PathKept :
          /\ e1.id = 11 /\ e1.suffix = ".col"
          /\ e2.id = 1 /\ e2.suffix = ".idx"

(* ----------------------------- bind_function -------------------------- *)
\* the longest argument list of a call
MaxArgs == 2

\* DataType::new(kind, nullable), and the Option around a return type
DataType(kind, nullable) == [kind |-> kind, nullable |-> nullable]
None == [some |-> FALSE]
Some(v) == [some |-> TRUE, v |-> v]

ColumnRef(table, column, dt) ==
    [node |-> "ColumnRef", table |-> table, column |-> column,
     datatype |-> dt]

\* expressions of the statement: two columns, the constant NULL, and a name
\* that no table has
AstExprs == {"a", "x", "NULL", "nocol"}

\* self.bind_expr(expr): the bound expression, or a BindError
bind_expr(e) ==
    CASE e = "a" ->
            [tag |-> "Ok",
             expr |-> ColumnRef(1, 1, Some(DataType("Int", TRUE)))]
      [] e = "x" ->
            [tag |-> "Ok",
             expr |-> ColumnRef(1, 2, Some(DataType("Double", FALSE)))]
      [] e = "NULL" ->
            [tag |-> "Ok", expr |-> [node |-> "Constant", datatype |-> None]]
      [] OTHER -> [tag |-> "Err"]

\* BoundExpr::return_type(): Option<DataType>
return_type(e) ==
    IF e.node \in {"ColumnRef", "Constant"} THEN e.datatype
    ELSE IF e.node = "AggCall" THEN Some(e.return_type)
    ELSE e.return_type

\* FunctionArg::Named / Unnamed around Expr, Wildcard or QualifiedWildcard
FunctionArgs ==
    [named : {FALSE}, kind : {"Expr"}, expr : AstExprs]
    \cup {[named |-> TRUE, kind |-> "Expr", expr |-> "a"],
          [named |-> FALSE, kind |-> "Wildcard", expr |-> "*"],
          [named |-> FALSE, kind |-> "QualifiedWildcard", expr |-> "t.*"]}

ArgLists == UNION {[1..n -> FunctionArgs] : n \in 0..MaxArgs}

\* func.name.to_string(), letter by letter
FuncNames ==
    {<<"a", "v", "g">>, <<"A", "V", "G">>, <<"c", "o", "u", "n", "t">>,
     <<"C", "o", "u", "n", "t">>, <<"s", "u", "m">>, <<"m", "a", "x">>,
     <<"m", "i", "n">>, <<"a", "b", "s">>}

Lower(ch) ==
    CASE ch = "A" -> "a" [] ch = "V" -> "v" [] ch = "G" -> "g"
      [] ch = "C" -> "c" [] OTHER -> ch

\* str::to_lowercase
to_lowercase(name) == [i \in 1..Len(name) |-> Lower(name[i])]

\* a loop body that keeps the arguments bound before a wildcard
ArgStepNoClear(args, arg) ==
    CASE arg.kind = "Expr" ->
            IF bind_expr(arg.expr).tag = "Ok"
            THEN [tag |-> "Continue",
                  args |-> Append(args, bind_expr(arg.expr).expr)]
            ELSE [tag |-> "Err", args |-> <<>>]
      [] arg.kind = "Wildcard" -> [tag |-> "Break", args |-> args]
      [] OTHER -> [tag |-> "Panic", args |-> <<>>]

\* one turn of `for arg in &func.args`: push the bound expression (or leave
\* with its error), clear and break at a wildcard, todo! otherwise
ArgStep(args, arg) ==
    CASE arg.kind = "Expr" ->
            IF bind_expr(arg.expr).tag = "Ok"
            THEN [tag |-> "Continue",
                  args |-> Append(args, bind_expr(arg.expr).expr)]
            ELSE [tag |-> "Err", args |-> <<>>]
      [] arg.kind = "Wildcard" -> [tag |-> "Break", args |-> <<>>]
      [] OTHER -> [tag |-> "Panic", args |-> <<>>]

\* the argument loop
RECURSIVE BindArgs(_, _)
BindArgs(fargs, args) ==
    IF fargs = <<>> THEN [tag |-> "Ok", args |-> args]
    ELSE LET r == ArgStep(args, Head(fargs))
         IN  CASE r.tag = "Continue" -> BindArgs(Tail(fargs), r.args)
               [] r.tag = "Break" -> [tag |-> "Ok", args |-> r.args]
               [] OTHER -> r

\* the regular tables of the catalog: table 2 has no column with id 0
CatalogTables ==
    {[ref_id |-> 1, col0 |-> TRUE], [ref_id |-> 2, col0 |-> FALSE],
     [ref_id |-> 3, col0 |-> TRUE]}

\* self.context.regular_tables.values(), in the order the map yields them
Contexts ==
    {<<>>} \cup {<<t>> : t \in CatalogTables}
    \cup ({<<t, u>> : t, u \in CatalogTables}
             \ {<<t, t>> : t \in CatalogTables})

\* the loop over the regular tables: the column 0 of the first table that
\* has one is pushed, and the loop breaks
RECURSIVE RowCountArgs(_)
RowCountArgs(tables) ==
    IF tables = <<>> THEN <<>>
    ELSE IF Head(tables).col0
         THEN <<ColumnRef(Head(tables).ref_id, 0,
                          Some(DataType("Int", FALSE)))>>
         ELSE RowCountArgs(Tail(tables))

IntType == DataType("Int", FALSE)

\* `match func.name.to_string().to_lowercase().as_str()`: the kind, the
\* return type and the arguments, or the panic of args[0] on an empty list
\* or of an unsupported name
KindOf(name, args, tables) ==
    CASE name = <<"a", "v", "g">> ->
            [tag |-> "Ok", kind |-> "Avg", args |-> args,
             return_type |-> Some(DataType("Double", FALSE))]
      [] name = <<"c", "o", "u", "n", "t">> ->
            IF args = <<>>
            THEN [tag |-> "Ok", kind |-> "RowCount",
                  args |-> RowCountArgs(tables),
                  return_type |-> Some(IntType)]
            ELSE [tag |-> "Ok", kind |-> "Count", args |-> args,
                  return_type |-> Some(IntType)]
      [] name \in {<<"m", "a", "x">>, <<"m", "i", "n">>, <<"s", "u", "m">>} ->
            IF args = <<>> THEN [tag |-> "Panic"]
            ELSE [tag |-> "Ok",
                  kind |-> CASE name = <<"m", "a", "x">> -> "Max"
                             [] name = <<"m", "i", "n">> -> "Min"
                             [] OTHER -> "Sum",
                  args |-> args, return_type |-> return_type(args[1])]
      [] OTHER -> [tag |-> "Panic"]

AggCall(kind, args, ty) ==
    [node |-> "AggCall", kind |-> kind, args |-> args, return_type |-> ty]

\* `match kind`: avg becomes sum / count, with unwrap of the first
\* argument's return type; every other kind is an AggCall, with unwrap of
\* the return type
Rewrite(k) ==
    IF k.kind = "Avg"
    THEN IF k.args = <<>> \/ ~return_type(k.args[1]).some
         THEN [tag |-> "Panic"]
         ELSE [tag |-> "Ok",
               expr |->
                 [node |-> "BinaryOp", op |-> "Divide",
                  left_expr |->
                      AggCall("Sum", k.args, return_type(k.args[1]).v),
                  right_expr |->
                      [node |-> "TypeCast",
                       ty |-> return_type(k.args[1]).v.kind,
                       expr |-> AggCall("Count", k.args, IntType)],
                  return_type |-> k.return_type]]
    ELSE IF ~k.return_type.some THEN [tag |-> "Panic"]
         ELSE [tag |-> "Ok",
               expr |-> AggCall(k.kind, k.args, k.return_type.v)]

\* Binder::bind_function(func) in a context with the regular tables `tables`
bind_function(func, tables) ==
    LET a == BindArgs(func.args, <<>>)
    IN  IF a.tag # "Ok" THEN [tag |-> a.tag]
        ELSE LET k == KindOf(to_lowercase(func.name), a.args, tables)
             IN  IF k.tag # "Ok" THEN [tag |-> "Panic"] ELSE Rewrite(k)

\* a call of bind_function
BindFunctionCall(func, tables) ==
    /\ probe.op = "none"
    /\ probe' = [op |-> "bind_function", func |-> func, tables |-> tables,
                 result |-> bind_function(func, tables)]
    /\ UNCHANGED <<columns, builders, row_cnt, pc, col, suffix, local, result,
                   fs, dirSynced, calls, finished, flushes>>

InitBind == InitWith(<<>>, FALSE, <<>>, {})

NextBind ==
    \E name \in FuncNames, args \in ArgLists, tables \in Contexts :
        BindFunctionCall([name |-> name, args |-> args], tables)

SpecBind == InitBind /\ [][NextBind]_vars

Called == probe.op = "bind_function"

\* the position of the first wildcard of an argument list, or one past its end
FirstWildcard(fargs) ==
    IF \E i \in 1..Len(fargs) : fargs[i].kind = "Wildcard"
    THEN CHOOSE i \in 1..Len(fargs) :
            /\ fargs[i].kind = "Wildcard"
            /\ \A j \in 1..(i - 1) : fargs[j].kind # "Wildcard"
    ELSE Len(fargs) + 1

\* argument binding comes to its end: every argument before the first
\* wildcard is an expression that binds
ArgsBind(fargs) ==
    \A i \in 1..(FirstWildcard(fargs) - 1) :
        fargs[i].kind = "Expr" /\ bind_expr(fargs[i].expr).tag = "Ok"

\* the argument list after argument binding
BoundArgs(fargs) ==
    IF FirstWildcard(fargs) <= Len(fargs) THEN <<>>
    ELSE [i \in 1..Len(fargs) |-> bind_expr(fargs[i].expr).expr]

AvgNames == {<<"a", "v", "g">>, <<"A", "V", "G">>}
CountNames == {<<"c", "o", "u", "n", "t">>, <<"C", "o", "u", "n", "t">>}

\* the aggregate calls the result of a call is made of
AggCallsOf(r) ==
    IF r.tag # "Ok" THEN {}
    ELSE IF r.expr.node = "AggCall" THEN {r.expr}
    ELSE {r.expr.left_expr, r.expr.right_expr.expr}

IsAvgRewrite(r, args) ==
    /\ r.tag = "Ok"
    /\ r.expr.node = "BinaryOp"
    /\ r.expr.op = "Divide"
    /\ r.expr.left_expr.node = "AggCall"
    /\ r.expr.left_expr.kind = "Sum"
    /\ r.expr.left_expr.args = args
    /\ r.expr.right_expr.node = "TypeCast"
    /\ return_type(args[1]).some
    /\ r.expr.right_expr.ty = return_type(args[1]).v.kind
    /\ r.expr.right_expr.expr.node = "AggCall"
    /\ r.expr.right_expr.expr.kind = "Count"
    /\ r.expr.right_expr.expr.args = args
    /\ r.expr.return_type = Some(DataType("Double", FALSE))

\* C19: a call named avg, in any case of the letters, whose argument binding
\* leaves at least one bound argument returns the Divide of a Sum over the
\* arguments by a cast, to the kind of the first argument's type, of a Count
\* over the same arguments, with return type non-nullable Double; and no
\* result holds an aggregate call of kind Avg.
C19_AvgRewritten ==
    Called =>
        /\ (/\ probe.func.name \in AvgNames
            /\ ArgsBind(probe.func.args)
            /\ BoundArgs(probe.func.args) # <<>>) =>
                IsAvgRewrite(probe.result, BoundArgs(probe.func.args))
        /\ \A c \in AggCallsOf(probe.result) : c.kind # "Avg"

\* the rewrite of avg for a first argument that has a return type
AvgRewrittenTyped ==
    Called =>
        /\ (/\ probe.func.name \in AvgNames
            /\ ArgsBind(probe.func.args)
            /\ BoundArgs(probe.func.args) # <<>>
            /\ return_type(BoundArgs(probe.func.args)[1]).some) =>
                IsAvgRewrite(probe.result, BoundArgs(probe.func.args))
        /\ \A c \in AggCallsOf(probe.result) : c.kind # "Avg"

\* C20: a call named count whose argument list is empty after argument
\* binding (no argument, or a wildcard) gives an aggregate call of kind
\* RowCount over at most one column reference, the column 0 of a regular
\* table of the context; with bound arguments it gives kind Count over
\* exactly these; the return type is non-nullable Int in both.
C20_CountForms ==
    (/\ Called
     /\ probe.func.name \in CountNames
     /\ ArgsBind(probe.func.args)) =>
        /\ probe.result.tag = "Ok"
        /\ probe.result.expr.node = "AggCall"
        /\ probe.result.expr.return_type = DataType("Int", FALSE)
        /\ IF BoundArgs(probe.func.args) = <<>>
           THEN /\ probe.result.expr.kind = "RowCount"
                /\ Len(probe.result.expr.args) <= 1
                /\ \A i \in 1..Len(probe.result.expr.args) :
                      /\ probe.result.expr.args[i].node = "ColumnRef"
                      /\ probe.result.expr.args[i].column = 0
                      /\ \E k \in 1..Len(probe.tables) :
                            /\ probe.tables[k].col0
                            /\ probe.tables[k].ref_id
                                  = probe.result.expr.args[i].table
           ELSE /\ probe.result.expr.kind = "Count"
                /\ probe.result.expr.args = BoundArgs(probe.func.args)

C20_Witness ==
    /\ Called
    /\ probe.func.name = <<"C", "o", "u", "n", "t">>
    /\ Len(probe.func.args) = 2
    /\ probe.func.args[1].kind = "Expr"
    /\ probe.func.args[2].kind = "Wildcard"
    /\ Len(probe.tables) = 2
    /\ ~probe.tables[1].col0
    /\ probe.result.tag = "Ok"
    /\ probe.result.expr.kind = "RowCount"
    /\ Len(probe.result.expr.args) = 1

====
